---- MODULE Spec2Model ----
(***************************************************************************)
(* Buddy-allocator physical memory manager (docs/tests/pmm.py, class PMM). *)
(* The PMM object is modelled field by field; every method is an operator  *)
(* on a record `p` that stands for `self`, and every public method is one  *)
(* action.  Addresses and sizes are byte values.                           *)
(***************************************************************************)
EXTENDS Integers, Sequences, FiniteSets, TLC

VARIABLES g_inited, g_range_start, g_range_end, g_min_block, g_max_order,
          g_order_count, g_free_heads, memory_state, allocated_blocks,
          last, hung, after_misuse

vars == <<g_inited, g_range_start, g_range_end, g_min_block, g_max_order,
          g_order_count, g_free_heads, memory_state, allocated_blocks,
          last, hung, after_misuse>>

\* ------------------------------------------------------------------ bounds
\* Addresses offered to the operations are multiples of WORD_SIZE, the least
\* minimum block size init accepts; the largest range offered to init is
\* [0, MaxEndUnits * WORD_SIZE).
WORD_SIZE == 8
MaxStartUnits == 1
MaxEndUnits == 4
\* The public calls explored after a mark_free_range call that put bytes on
\* the freelists that were free or allocated already.
MaxAfterMisuse == 1

StartSet == {WORD_SIZE * k : k \in 0..MaxStartUnits}
EndSet == {WORD_SIZE * k : k \in 0..MaxEndUnits}
MinBlockSet == {0, 4, 8, 12, 16}
SizeSet == {0, 1, 9, 17} \cup {WORD_SIZE * k : k \in 1..(MaxEndUnits + 1)}
RangeSet == {WORD_SIZE * k : k \in 0..MaxEndUnits}
\* Addresses offered to free beside the live ones: the block boundaries, and
\* the addresses one byte off the bases init can choose.
AddrSet == RangeSet \cup {1, WORD_SIZE - 1, WORD_SIZE + 1}

\* --------------------------------------------------------------- constants
PMM_MIN_ORDER_PAGE_SIZE == 4096
PMM_MAX_ORDERS == 32
OK == 0
ERR_OOM == 1
ERR_INVALID == 2
ERR_NOT_INIT == 3
ERR_ALREADY_INIT == 4
ERR_NOT_ALIGNED == 5
ERR_OUT_OF_RANGE == 6
ERR_NOT_FOUND == 7
\* Python's None (an empty head, "no block"): a value that is no address.
None == -1

\* ------------------------------------------------------- integer helpers
RECURSIVE BitAnd(_, _)
BitAnd(a, b) ==
    IF a = 0 \/ b = 0 THEN 0
    ELSE (a % 2) * (b % 2) + 2 * BitAnd(a \div 2, b \div 2)

RECURSIVE BitXor(_, _)
BitXor(a, b) ==
    IF a = 0 THEN b
    ELSE IF b = 0 THEN a
    ELSE (((a % 2) + (b % 2)) % 2) + 2 * BitXor(a \div 2, b \div 2)

RECURSIVE ShiftLeft(_, _)
ShiftLeft(v, n) == IF n = 0 THEN v ELSE ShiftLeft(2 * v, n - 1)

\* x & ~m for non-negative x and m (Python's unbounded two's complement).
AndNot(x, m) == x - BitAnd(x, m)

\* is_pow2_u64 that accepts every value.
is_pow2_u64_any(x) == TRUE

is_pow2_u64(x) == x # 0 /\ BitAnd(x, x - 1) = 0

\* align_up that leaves the value as it is.
align_up_none(value, alignment) == value

align_up(value, alignment) == AndNot(value + alignment - 1, alignment - 1)

align_down(value, alignment) == AndNot(value, alignment - 1)

\* ------------------------------------------------------------ the object
\* The allocator at the start of a call.  `written` is the set of addresses
\* write_next_word has stored a link word at since the call began.
Self ==
    [g_inited |-> g_inited, g_range_start |-> g_range_start,
     g_range_end |-> g_range_end, g_min_block |-> g_min_block,
     g_max_order |-> g_max_order, g_order_count |-> g_order_count,
     g_free_heads |-> g_free_heads, memory_state |-> memory_state,
     allocated_blocks |-> allocated_blocks, written |-> {}]

\* An empty Python dict (memory_state = {}, allocated_blocks = {}).
EmptyDict == [a \in {} |-> 0]

\* d[k] = v
DictSet(d, k, v) == [x \in DOMAIN d \cup {k} |-> IF x = k THEN v ELSE d[x]]

\* del d[k]
DictDel(d, k) == [x \in DOMAIN d \ {k} |-> d[x]]

NoHeads == [i \in 0..(PMM_MAX_ORDERS - 1) |-> None]

NewPMM ==
    [g_inited |-> FALSE, g_range_start |-> 0, g_range_end |-> 0,
     g_min_block |-> PMM_MIN_ORDER_PAGE_SIZE, g_max_order |-> 0,
     g_order_count |-> 0, g_free_heads |-> NoHeads,
     memory_state |-> EmptyDict, allocated_blocks |-> EmptyDict,
     written |-> {}]

order_to_size(p, order) == ShiftLeft(p.g_min_block, order)

read_next_word(p, block_phys) ==
    IF block_phys \notin DOMAIN p.memory_state THEN 0
    ELSE p.memory_state[block_phys]

write_next_word(p, block_phys, next_phys) ==
    [p EXCEPT !.memory_state = DictSet(@, block_phys, next_phys),
              !.written = @ \cup {block_phys}]

\* pop_head that leaves the head of the list where it is.
pop_head_stale(p, order) == [p |-> p, block |-> p.g_free_heads[order]]

\* pop_head that hands out the block after the head.
pop_head_next(p, order) ==
    LET head == p.g_free_heads[order]
    IN  IF head = None THEN [p |-> p, block |-> None]
        ELSE LET next_block == read_next_word(p, head)
                 p1 == [p EXCEPT !.g_free_heads[order] =
                                     IF next_block # 0 THEN next_block ELSE None]
             IN  [p |-> write_next_word(p1, head, 0), block |-> next_block]

\* Returns [p, block]; block = None when the list is empty.
pop_head(p, order) ==
    LET head == p.g_free_heads[order]
    IN  IF head = None THEN [p |-> p, block |-> None]
        ELSE LET next_block == read_next_word(p, head)
                 p1 == [p EXCEPT !.g_free_heads[order] =
                                     IF next_block # 0 THEN next_block ELSE None]
             IN  [p |-> write_next_word(p1, head, 0), block |-> head]

\* push_head that links the new block to itself when the list is not empty.
push_head_self(p, order, block_phys) ==
    LET head == p.g_free_heads[order]
        next_val == IF head # None THEN block_phys ELSE 0
    IN  [write_next_word(p, block_phys, next_val)
            EXCEPT !.g_free_heads[order] = block_phys]

push_head(p, order, block_phys) ==
    LET head == p.g_free_heads[order]
        next_val == IF head # None THEN head ELSE 0
    IN  [write_next_word(p, block_phys, next_val)
            EXCEPT !.g_free_heads[order] = block_phys]

\* `seen` holds the blocks the loop has already visited: meeting one of them
\* again means the list is cyclic and the loop of the code never ends.
RECURSIVE remove_walk(_, _, _, _, _, _)
remove_walk(p, order, target_phys, prev, cur, seen) ==
    IF cur = None THEN [p |-> p, found |-> FALSE, hung |-> FALSE]
    ELSE LET nw == read_next_word(p, cur)
             next_block == IF nw # 0 THEN nw ELSE None
         IN  IF cur = target_phys
             THEN [p |-> IF prev = None
                         THEN [p EXCEPT !.g_free_heads[order] = next_block]
                         ELSE write_next_word(p, prev,
                                  IF next_block # None THEN next_block ELSE 0),
                   found |-> TRUE, hung |-> FALSE]
             ELSE IF cur \in seen
             THEN [p |-> p, found |-> FALSE, hung |-> TRUE]
             ELSE remove_walk(p, order, target_phys, cur, next_block,
                              seen \cup {cur})

\* remove_specific that reports the block removed and leaves it on the list.
remove_specific_keeps(p, order, target_phys) ==
    [p |-> p, found |-> TRUE, hung |-> FALSE]

\* Returns [p, found, hung].
remove_specific(p, order, target_phys) ==
    remove_walk(p, order, target_phys, None, p.g_free_heads[order], {})

buddy_of(p, addr, order) ==
    BitXor(addr - p.g_range_start, order_to_size(p, order)) + p.g_range_start

\* size_loop that doubles once more when the size is reached exactly.
RECURSIVE size_loop_le(_, _, _)
size_loop_le(need, order, size_bytes) ==
    IF need <= size_bytes THEN size_loop_le(2 * need, order + 1, size_bytes)
    ELSE order

\* The doubling loop of size_to_order.
RECURSIVE size_loop(_, _, _)
size_loop(need, order, size_bytes) ==
    IF need < size_bytes THEN size_loop(2 * need, order + 1, size_bytes)
    ELSE order

size_to_order(p, size_bytes) ==
    IF size_bytes = 0 THEN 0 ELSE size_loop(p.g_min_block, 0, size_bytes)

\* chosen_order without the test that the block fits in what remains.
chosen_order_nofit(p, cur, remain) ==
    LET fits == {o \in 0..p.g_max_order :
                    BitAnd(cur, order_to_size(p, o) - 1) = 0}
    IN  IF fits = {} THEN 0
        ELSE CHOOSE o \in fits : \A o2 \in fits : o2 <= o

\* chosen_order that always settles for a minimum block.
chosen_order_min(p, cur, remain) == 0

\* The order the downward scan of partition_range_into_blocks stops at.
chosen_order(p, cur, remain) ==
    LET fits == {o \in 0..p.g_max_order :
                    /\ order_to_size(p, o) <= remain
                    /\ BitAnd(cur, order_to_size(p, o) - 1) = 0}
    IN  IF fits = {} THEN 0
        ELSE CHOOSE o \in fits : \A o2 \in fits : o2 <= o

RECURSIVE partition_range_into_blocks(_, _, _)
partition_range_into_blocks(p, range_start, range_end) ==
    IF range_start < range_end
    THEN LET chosen == chosen_order(p, range_start, range_end - range_start)
         IN  partition_range_into_blocks(
                 push_head(p, chosen, range_start),
                 range_start + order_to_size(p, chosen), range_end)
    ELSE p

\* log2_loop that rounds the number of blocks up to a power of two.
RECURSIVE log2_loop_ceil(_, _)
log2_loop_ceil(tmp, max_order) ==
    IF tmp > 1 THEN log2_loop_ceil((tmp + 1) \div 2, max_order + 1)
    ELSE max_order

\* The loop of init that counts the orders.
RECURSIVE log2_loop(_, _)
log2_loop(tmp, max_order) ==
    IF tmp > 1 THEN log2_loop(tmp \div 2, max_order + 1) ELSE max_order

\* Returns [p, status].
init(p, range_start_phys, range_end_phys, min_block_size) ==
    IF p.g_inited THEN [p |-> p, status |-> ERR_ALREADY_INIT]
    ELSE IF range_end_phys <= range_start_phys
    THEN [p |-> p, status |-> ERR_INVALID]
    ELSE IF min_block_size = 0 \/ ~is_pow2_u64(min_block_size)
    THEN [p |-> p, status |-> ERR_INVALID]
    ELSE IF min_block_size < WORD_SIZE THEN [p |-> p, status |-> ERR_INVALID]
    ELSE LET p1 == [p EXCEPT !.g_min_block = min_block_size]
             start_aligned == align_up(range_start_phys, min_block_size)
             end_aligned == align_down(range_end_phys, min_block_size)
         IN  IF end_aligned <= start_aligned
             THEN [p |-> p1, status |-> ERR_INVALID]
             ELSE LET blocks == (end_aligned - start_aligned) \div min_block_size
                      lg == log2_loop(blocks, 0)
                      max_order == IF lg >= PMM_MAX_ORDERS
                                   THEN PMM_MAX_ORDERS - 1 ELSE lg
                      p2 == [p1 EXCEPT !.g_range_start = start_aligned,
                                       !.g_range_end = end_aligned,
                                       !.g_max_order = max_order,
                                       !.g_order_count = max_order + 1,
                                       !.g_free_heads = NoHeads,
                                       !.memory_state = EmptyDict,
                                       !.allocated_blocks = EmptyDict]
                      p3 == partition_range_into_blocks(p2, start_aligned,
                                                        end_aligned)
                  IN  [p |-> [p3 EXCEPT !.g_inited = TRUE], status |-> OK]

\* shutdown that leaves the minimum block size as it is.
shutdown_keeps_min_block(p) ==
    IF ~p.g_inited THEN p
    ELSE [p EXCEPT !.memory_state = EmptyDict,
                   !.g_inited = FALSE,
                   !.g_range_start = 0,
                   !.g_range_end = 0,
                   !.g_max_order = 0,
                   !.g_order_count = 0,
                   !.g_free_heads = NoHeads,
                   !.allocated_blocks = EmptyDict]

\* shutdown that resets the fields whether initialized or not.
shutdown_always(p) ==
    [p EXCEPT !.memory_state = EmptyDict,
              !.g_inited = FALSE,
              !.g_range_start = 0,
              !.g_range_end = 0,
              !.g_min_block = PMM_MIN_ORDER_PAGE_SIZE,
              !.g_max_order = 0,
              !.g_order_count = 0,
              !.g_free_heads = NoHeads,
              !.allocated_blocks = EmptyDict]

shutdown(p) ==
    IF ~p.g_inited THEN p
    ELSE [p EXCEPT !.memory_state = EmptyDict,
                   !.g_inited = FALSE,
                   !.g_range_start = 0,
                   !.g_range_end = 0,
                   !.g_min_block = PMM_MIN_ORDER_PAGE_SIZE,
                   !.g_max_order = 0,
                   !.g_order_count = 0,
                   !.g_free_heads = NoHeads,
                   !.allocated_blocks = EmptyDict]

\* first_nonempty that does not look at the larger orders.
first_nonempty_stuck(p, o) == o

\* The search loop of alloc_block_of_order.
RECURSIVE first_nonempty(_, _)
first_nonempty(p, o) ==
    IF o <= p.g_max_order /\ p.g_free_heads[o] = None
    THEN first_nonempty(p, o + 1)
    ELSE o

\* split_down that pushes the lower half, which it also keeps.
RECURSIVE split_down_lower(_, _, _, _)
split_down_lower(p, block, o, req_order) ==
    IF o > req_order
    THEN split_down_lower(push_head(p, o - 1, block), block, o - 1, req_order)
    ELSE p

\* The splitting loop of alloc_block_of_order.
RECURSIVE split_down(_, _, _, _)
split_down(p, block, o, req_order) ==
    IF o > req_order
    THEN split_down(push_head(p, o - 1, block + order_to_size(p, o - 1)),
                    block, o - 1, req_order)
    ELSE p

\* alloc_block_of_order that unlinks a smaller block before it gives up.
alloc_block_of_order_unlinks(p, req_order) ==
    IF ~p.g_inited THEN [p |-> p, status |-> ERR_NOT_INIT, addr |-> 0]
    ELSE IF req_order > p.g_max_order
    THEN [p |-> p, status |-> ERR_OOM, addr |-> 0]
    ELSE LET o == first_nonempty(p, req_order)
         IN  IF o > p.g_max_order
             THEN [p |-> pop_head(p, first_nonempty(p, 0)).p,
                   status |-> ERR_OOM, addr |-> 0]
             ELSE LET r == pop_head(p, o)
                      p1 == split_down(r.p, r.block, o, req_order)
                      p2 == write_next_word(p1, r.block, 0)
                      p3 == [p2 EXCEPT !.allocated_blocks =
                                DictSet(@, r.block, order_to_size(p, req_order))]
                  IN  [p |-> p3, status |-> OK, addr |-> r.block]

\* Returns [p, status, addr].
alloc_block_of_order(p, req_order) ==
    IF ~p.g_inited THEN [p |-> p, status |-> ERR_NOT_INIT, addr |-> 0]
    ELSE IF req_order > p.g_max_order
    THEN [p |-> p, status |-> ERR_OOM, addr |-> 0]
    ELSE LET o == first_nonempty(p, req_order)
         IN  IF o > p.g_max_order THEN [p |-> p, status |-> ERR_OOM, addr |-> 0]
             ELSE LET r == pop_head(p, o)
                      p1 == split_down(r.p, r.block, o, req_order)
                      p2 == write_next_word(p1, r.block, 0)
                      p3 == [p2 EXCEPT !.allocated_blocks =
                                DictSet(@, r.block, order_to_size(p, req_order))]
                  IN  IF r.block = None
                      THEN [p |-> r.p, status |-> ERR_OOM, addr |-> 0]
                      ELSE [p |-> p3, status |-> OK, addr |-> r.block]

\* The rounding alloc and free share.
round_size(p, size_bytes) ==
    IF BitAnd(size_bytes, p.g_min_block - 1) # 0
    THEN align_up(size_bytes, p.g_min_block)
    ELSE size_bytes

\* alloc that reports a size above the largest block as INVALID.
alloc_oversize_invalid(p, size_bytes) ==
    IF ~p.g_inited THEN [p |-> p, status |-> ERR_NOT_INIT, addr |-> 0]
    ELSE IF size_bytes = 0 THEN [p |-> p, status |-> ERR_INVALID, addr |-> 0]
    ELSE LET order == size_to_order(p, round_size(p, size_bytes))
         IN  IF order > p.g_max_order
             THEN [p |-> p, status |-> ERR_INVALID, addr |-> 0]
             ELSE alloc_block_of_order(p, order)

\* Returns [p, status, addr].
alloc(p, size_bytes) ==
    IF ~p.g_inited THEN [p |-> p, status |-> ERR_NOT_INIT, addr |-> 0]
    ELSE IF size_bytes = 0 THEN [p |-> p, status |-> ERR_INVALID, addr |-> 0]
    ELSE LET order == size_to_order(p, round_size(p, size_bytes))
         IN  IF order > p.g_max_order
             THEN [p |-> p, status |-> ERR_OOM, addr |-> 0]
             ELSE alloc_block_of_order(p, order)

\* The coalescing loop of free.  Returns [p, hung].
RECURSIVE coalesce(_, _, _, _)
coalesce(p, block_addr, order, block_size) ==
    IF order < p.g_max_order
    THEN LET buddy == buddy_of(p, block_addr, order)
         IN  IF buddy < p.g_range_start \/ buddy + block_size > p.g_range_end
             THEN [p |-> push_head(p, order, block_addr), hung |-> FALSE]
             ELSE LET r == remove_specific(p, order, buddy)
                  IN  IF r.hung THEN [p |-> p, hung |-> TRUE]
                      ELSE IF ~r.found
                      THEN [p |-> push_head(p, order, block_addr),
                            hung |-> FALSE]
                      ELSE coalesce(r.p,
                                    IF buddy < block_addr THEN buddy
                                    ELSE block_addr,
                                    order + 1, 2 * block_size)
    ELSE [p |-> push_head(p, order, block_addr), hung |-> FALSE]

\* free that infers the order before it checks the range.
free_order_first(p, phys, size_bytes) ==
    IF ~p.g_inited THEN [p |-> p, status |-> ERR_NOT_INIT, hung |-> FALSE]
    ELSE IF size_bytes = 0
    THEN [p |-> p, status |-> ERR_INVALID, hung |-> FALSE]
    ELSE LET order == size_to_order(p, round_size(p, size_bytes))
             block_size == order_to_size(p, order)
         IN  IF order > p.g_max_order
             THEN [p |-> p, status |-> ERR_INVALID, hung |-> FALSE]
             ELSE IF phys < p.g_range_start \/ phys >= p.g_range_end
             THEN [p |-> p, status |-> ERR_OUT_OF_RANGE, hung |-> FALSE]
             ELSE IF BitAnd(phys, block_size - 1) # 0
             THEN [p |-> p, status |-> ERR_NOT_ALIGNED, hung |-> FALSE]
             ELSE LET p1 == [p EXCEPT !.allocated_blocks = DictDel(@, phys)]
                      r == coalesce(p1, phys, order, block_size)
                  IN  [p |-> r.p, status |-> OK, hung |-> r.hung]

\* Returns [p, status, hung].
free(p, phys, size_bytes) ==
    IF ~p.g_inited THEN [p |-> p, status |-> ERR_NOT_INIT, hung |-> FALSE]
    ELSE IF size_bytes = 0
    THEN [p |-> p, status |-> ERR_INVALID, hung |-> FALSE]
    ELSE IF phys < p.g_range_start
    THEN [p |-> p, status |-> ERR_OUT_OF_RANGE, hung |-> FALSE]
    ELSE IF phys >= p.g_range_end
    THEN [p |-> p, status |-> ERR_OUT_OF_RANGE, hung |-> FALSE]
    ELSE LET order == size_to_order(p, round_size(p, size_bytes))
             block_size == order_to_size(p, order)
         IN  IF order > p.g_max_order
             THEN [p |-> p, status |-> ERR_INVALID, hung |-> FALSE]
             ELSE IF BitAnd(phys, block_size - 1) # 0
             THEN [p |-> p, status |-> ERR_NOT_ALIGNED, hung |-> FALSE]
             ELSE LET p1 == [p EXCEPT !.allocated_blocks = DictDel(@, phys)]
                      r == coalesce(p1, phys, order, block_size)
                  IN  [p |-> r.p, status |-> OK, hung |-> r.hung]

\* mark_free_range that accepts a range holding no whole aligned block.
mark_free_range_no_block(p, start, end) ==
    IF ~p.g_inited THEN [p |-> p, status |-> ERR_NOT_INIT]
    ELSE IF end <= start THEN [p |-> p, status |-> ERR_INVALID]
    ELSE LET s1 == IF start < p.g_range_start THEN p.g_range_start ELSE start
             e1 == IF end > p.g_range_end THEN p.g_range_end ELSE end
             s2 == align_up(s1, p.g_min_block)
             e2 == align_down(e1, p.g_min_block)
         IN  IF s1 >= e1 THEN [p |-> p, status |-> ERR_INVALID]
             ELSE [p |-> partition_range_into_blocks(p, s2, e2),
                   status |-> OK]

\* mark_free_range that looks at its arguments before the initialized flag.
mark_free_range_args_first(p, start, end) ==
    IF end <= start THEN [p |-> p, status |-> ERR_INVALID]
    ELSE IF ~p.g_inited THEN [p |-> p, status |-> ERR_NOT_INIT]
    ELSE LET s1 == IF start < p.g_range_start THEN p.g_range_start ELSE start
             e1 == IF end > p.g_range_end THEN p.g_range_end ELSE end
             s2 == align_up(s1, p.g_min_block)
             e2 == align_down(e1, p.g_min_block)
         IN  IF s1 >= e1 THEN [p |-> p, status |-> ERR_INVALID]
             ELSE IF s2 >= e2 THEN [p |-> p, status |-> ERR_INVALID]
             ELSE [p |-> partition_range_into_blocks(p, s2, e2),
                   status |-> OK]

\* Returns [p, status].
mark_free_range(p, start, end) ==
    IF ~p.g_inited THEN [p |-> p, status |-> ERR_NOT_INIT]
    ELSE IF end <= start THEN [p |-> p, status |-> ERR_INVALID]
    ELSE LET s1 == IF start < p.g_range_start THEN p.g_range_start ELSE start
             e1 == IF end > p.g_range_end THEN p.g_range_end ELSE end
             s2 == align_up(s1, p.g_min_block)
             e2 == align_down(e1, p.g_min_block)
         IN  IF s1 >= e1 THEN [p |-> p, status |-> ERR_INVALID]
             ELSE IF s2 >= e2 THEN [p |-> p, status |-> ERR_INVALID]
             ELSE [p |-> partition_range_into_blocks(p, s2, e2),
                   status |-> OK]

\* The walk of mark_reserved_range over one freelist after another.  `seen`
\* holds the configurations <<cur, p>> the walk of the current list has been
\* in: meeting one of them again means the loop of the code never ends.
\* Returns [p, hung, inner_ok]; inner_ok is FALSE once an internal
\* mark_free_range call has returned an error.
RECURSIVE reserve_walk(_, _, _, _, _, _, _)
reserve_walk(p, start, end, o, cur, seen, inner_ok) ==
    IF cur = None
    THEN IF o = 0 THEN [p |-> p, hung |-> FALSE, inner_ok |-> inner_ok]
         ELSE reserve_walk(p, start, end, o - 1, p.g_free_heads[o - 1], {},
                           inner_ok)
    ELSE IF <<cur, p>> \in seen
    THEN [p |-> p, hung |-> TRUE, inner_ok |-> inner_ok]
    ELSE LET nw == read_next_word(p, cur)
             next_block == IF nw # 0 THEN nw ELSE None
             block_start == cur
             block_end == cur + order_to_size(p, o)
         IN  IF ~(block_end <= start \/ block_start >= end)
             THEN LET r == remove_specific(p, o, cur)
                      f1 == IF block_start < start
                            THEN mark_free_range(r.p, block_start, start)
                            ELSE [p |-> r.p, status |-> OK]
                      f2 == IF block_end > end
                            THEN mark_free_range(f1.p, end, block_end)
                            ELSE [p |-> f1.p, status |-> OK]
                  IN  IF r.hung
                      THEN [p |-> p, hung |-> TRUE, inner_ok |-> inner_ok]
                      ELSE reserve_walk(f2.p, start, end, o, next_block,
                               seen \cup {<<cur, p>>},
                               inner_ok /\ f1.status = OK /\ f2.status = OK)
             ELSE reserve_walk(p, start, end, o, next_block,
                               seen \cup {<<cur, p>>}, inner_ok)

\* mark_reserved_range that does not widen the range to the minimum block size.
mark_reserved_range_unaligned(p, start, end) ==
    IF ~p.g_inited
    THEN [p |-> p, status |-> ERR_NOT_INIT, hung |-> FALSE, inner_ok |-> TRUE]
    ELSE IF end <= start
    THEN [p |-> p, status |-> ERR_INVALID, hung |-> FALSE, inner_ok |-> TRUE]
    ELSE LET s1 == IF start < p.g_range_start THEN p.g_range_start ELSE start
             e1 == IF end > p.g_range_end THEN p.g_range_end ELSE end
             r == reserve_walk(p, s1, e1, p.g_max_order,
                               p.g_free_heads[p.g_max_order], {}, TRUE)
         IN  IF s1 >= e1
             THEN [p |-> p, status |-> ERR_INVALID, hung |-> FALSE,
                   inner_ok |-> TRUE]
             ELSE [p |-> r.p, status |-> OK, hung |-> r.hung,
                   inner_ok |-> r.inner_ok]

\* Returns [p, status, hung, inner_ok].
mark_reserved_range(p, start, end) ==
    IF ~p.g_inited
    THEN [p |-> p, status |-> ERR_NOT_INIT, hung |-> FALSE, inner_ok |-> TRUE]
    ELSE IF end <= start
    THEN [p |-> p, status |-> ERR_INVALID, hung |-> FALSE, inner_ok |-> TRUE]
    ELSE LET s1 == IF start < p.g_range_start THEN p.g_range_start ELSE start
             e1 == IF end > p.g_range_end THEN p.g_range_end ELSE end
             s2 == align_down(s1, p.g_min_block)
             e2 == align_up(e1, p.g_min_block)
             r == reserve_walk(p, s2, e2, p.g_max_order,
                               p.g_free_heads[p.g_max_order], {}, TRUE)
         IN  IF s1 >= e1
             THEN [p |-> p, status |-> ERR_INVALID, hung |-> FALSE,
                   inner_ok |-> TRUE]
             ELSE [p |-> r.p, status |-> OK, hung |-> r.hung,
                   inner_ok |-> r.inner_ok]

\* get_free_list_state()[order]: the blocks met walking F[order], in order.
\* On a cyclic list the code never returns; the walk here stops where it
\* closes the cycle.
RECURSIVE list_walk(_, _, _)
list_walk(p, cur, seen) ==
    IF cur = None \/ cur \in seen THEN << >>
    ELSE LET nw == read_next_word(p, cur)
         IN  <<cur>> \o list_walk(p, IF nw # 0 THEN nw ELSE None,
                                  seen \cup {cur})

get_free_list_state(p, order) == list_walk(p, p.g_free_heads[order], {})

\* ------------------------------------------------- what the client sees
\* The bytes of the block at `addr` of `size` bytes.
Bytes(addr, size) == addr..(addr + size - 1)

RECURSIVE SeqToSet(_)
SeqToSet(q) == IF q = << >> THEN {} ELSE {Head(q)} \cup SeqToSet(Tail(q))

\* The pairs <<order, block>> the freelist snapshot of `p` shows.
FreeBlocksOf(p) ==
    UNION {{<<o, b>> : b \in SeqToSet(get_free_list_state(p, o))} :
             o \in 0..(PMM_MAX_ORDERS - 1)}

FreeBytesOf(p) ==
    UNION {Bytes(fb[2], order_to_size(p, fb[1])) : fb \in FreeBlocksOf(p)}

LiveBytesOf(p) ==
    UNION {Bytes(a, p.allocated_blocks[a]) : a \in DOMAIN p.allocated_blocks}

\* The bytes that are on a freelist or in a live allocation.
UsedBytes == FreeBytesOf(Self) \cup LiveBytesOf(Self)

\* mark_free_range(s, e) is used as meant when it fails, or when none of the
\* bytes it puts on the freelists is among `used`.
Disciplined(s, e, used) ==
    LET s1 == IF s < g_range_start THEN g_range_start ELSE s
        e1 == IF e > g_range_end THEN g_range_end ELSE e
    IN  \/ ~g_inited
        \/ e <= s
        \/ s1 >= e1
        \/ \A x \in (align_up(s1, g_min_block))..(align_down(e1, g_min_block) - 1) :
              x \notin used

\* ----------------------------------------------------------------- actions
Commit(p) ==
    /\ g_inited' = p.g_inited
    /\ g_range_start' = p.g_range_start
    /\ g_range_end' = p.g_range_end
    /\ g_min_block' = p.g_min_block
    /\ g_max_order' = p.g_max_order
    /\ g_order_count' = p.g_order_count
    /\ g_free_heads' = p.g_free_heads
    /\ memory_state' = p.memory_state
    /\ allocated_blocks' = p.allocated_blocks

\* What the caller got back from the last call: status and, for alloc, address.
Call(op, status, addr) == [op |-> op, status |-> status, addr |-> addr]

\* 0 until a mark_free_range call misuses the allocator, then the calls since.
Tick == IF after_misuse = 0 THEN 0 ELSE after_misuse + 1

Init ==
    /\ g_inited = NewPMM.g_inited
    /\ g_range_start = NewPMM.g_range_start
    /\ g_range_end = NewPMM.g_range_end
    /\ g_min_block = NewPMM.g_min_block
    /\ g_max_order = NewPMM.g_max_order
    /\ g_order_count = NewPMM.g_order_count
    /\ g_free_heads = NewPMM.g_free_heads
    /\ memory_state = NewPMM.memory_state
    /\ allocated_blocks = NewPMM.allocated_blocks
    /\ last = Call("new", OK, 0)
    /\ hung = FALSE
    /\ after_misuse = 0

DoInit(s, e, mb) ==
    LET r == init(Self, s, e, mb)
    IN  /\ ~hung
        /\ after_misuse <= MaxAfterMisuse
        /\ Commit(r.p)
        /\ last' = Call("init", r.status, 0)
        /\ hung' = FALSE
        /\ after_misuse' = IF r.status = OK THEN 0 ELSE Tick

PmmInit == \E s \in StartSet, e \in EndSet, mb \in MinBlockSet : DoInit(s, e, mb)

Shutdown ==
    /\ ~hung
    /\ after_misuse <= MaxAfterMisuse
    /\ Commit(shutdown(Self))
    /\ last' = Call("shutdown", OK, 0)
    /\ hung' = FALSE
    /\ after_misuse' = Tick

DoAlloc(n) ==
    LET r == alloc(Self, n)
    IN  /\ ~hung
        /\ after_misuse <= MaxAfterMisuse
        /\ Commit(r.p)
        /\ last' = Call("alloc", r.status, r.addr)
        /\ hung' = FALSE
        /\ after_misuse' = Tick

Alloc == \E n \in SizeSet : DoAlloc(n)

DoFree(a, n) ==
    LET r == free(Self, a, n)
    IN  /\ ~hung
        /\ after_misuse <= MaxAfterMisuse
        /\ Commit(r.p)
        /\ last' = Call("free", r.status, 0)
        /\ hung' = r.hung
        /\ after_misuse' = Tick

\* The sizes a caller may free the live allocation at `a` with: those alloc
\* rounds to the size the block was handed out with.
LiveSizes(a) ==
    {n \in SizeSet : n # 0 /\
        order_to_size(Self, size_to_order(Self, round_size(Self, n)))
            = allocated_blocks[a]}

FreeLive == \E a \in DOMAIN allocated_blocks : \E n \in LiveSizes(a) : DoFree(a, n)

\* free(a, n) is used as meant when it fails, or when `a` is a live allocation
\* and `n` rounds to the size it was handed out with.
FreeAsMeant(a, n, status) ==
    \/ status # OK
    \/ a \in DOMAIN allocated_blocks /\ n \in LiveSizes(a)

DoFreeAny(a, n) ==
    LET r == free(Self, a, n)
    IN  /\ ~hung
        /\ after_misuse <= MaxAfterMisuse
        /\ Commit(r.p)
        /\ last' = Call("free", r.status, 0)
        /\ hung' = r.hung
        /\ after_misuse' = IF FreeAsMeant(a, n, r.status) THEN Tick
                           ELSE MaxAfterMisuse + 1

\* free of any address with any size.  A free that succeeds on something that
\* is not a live allocation is the last call explored.
FreeAny == \E a \in AddrSet, n \in SizeSet : DoFreeAny(a, n)

DoMarkReserved(s, e) ==
    LET r == mark_reserved_range(Self, s, e)
    IN  /\ ~hung
        /\ after_misuse <= MaxAfterMisuse
        /\ Commit(r.p)
        /\ last' = Call("mark_reserved_range", r.status, 0)
        /\ hung' = r.hung
        /\ after_misuse' = Tick

MarkReserved == \E s \in RangeSet, e \in RangeSet : DoMarkReserved(s, e)

DoMarkFree(s, e, disciplined) ==
    LET r == mark_free_range(Self, s, e)
    IN  /\ ~hung
        /\ after_misuse <= MaxAfterMisuse
        /\ Commit(r.p)
        /\ last' = Call("mark_free_range", r.status, 0)
        /\ hung' = FALSE
        /\ after_misuse' = IF disciplined THEN Tick ELSE after_misuse + 1

\* mark_free_range of a range no byte of which is free or allocated.
MarkFree ==
    LET used == UsedBytes
    IN  \E s \in RangeSet, e \in RangeSet :
            Disciplined(s, e, used) /\ DoMarkFree(s, e, TRUE)

\* mark_free_range of any range.
MarkFreeAny ==
    LET used == UsedBytes
    IN  \E s \in RangeSet, e \in RangeSet :
            DoMarkFree(s, e, Disciplined(s, e, used))

\* alloc/free traces: init, alloc, free of live allocations.
NextAF == PmmInit \/ Alloc \/ FreeLive

SpecAF == Init /\ [][NextAF]_vars

\* alloc/free traces with reservations.
NextAFR == PmmInit \/ Alloc \/ FreeLive \/ MarkReserved

SpecAFR == Init /\ [][NextAFR]_vars

\* every public operation, used as meant: free applied to live allocations,
\* mark_free_range to ranges that are neither free nor allocated.
NextD == PmmInit \/ Shutdown \/ Alloc \/ FreeLive \/ MarkReserved \/ MarkFree

SpecD == Init /\ [][NextD]_vars

\* every public operation, free applied to live allocations, mark_free_range to
\* any range.
Next == PmmInit \/ Shutdown \/ Alloc \/ FreeLive \/ MarkReserved \/ MarkFreeAny

Spec == Init /\ [][Next]_vars

\* every public operation, free applied to any address with any size,
\* mark_free_range to ranges that are neither free nor allocated.
NextM == PmmInit \/ Shutdown \/ Alloc \/ FreeAny \/ MarkReserved \/ MarkFree

SpecM == Init /\ [][NextM]_vars

\* ------------------------------------------------------------ properties
S(o) == order_to_size(Self, o)

FreeSeq(o) == get_free_list_state(Self, o)

FreeBlocks == FreeBlocksOf(Self)

RECURSIVE FreeSumFrom(_)
FreeSumFrom(o) ==
    IF o = PMM_MAX_ORDERS THEN 0
    ELSE (IF FreeSeq(o) = << >> THEN 0 ELSE Len(FreeSeq(o)) * S(o))
         + FreeSumFrom(o + 1)

\* Sum of the sizes of the blocks the freelist snapshot shows.
FreeSum == FreeSumFrom(0)

RECURSIVE DictSum(_)
DictSum(d) ==
    IF DOMAIN d = {} THEN 0
    ELSE LET k == CHOOSE x \in DOMAIN d : TRUE
         IN  d[k] + DictSum(DictDel(d, k))

\* Sum of the sizes of the live allocations.
LiveSum == DictSum(allocated_blocks)

\* The allocator a never-used instance becomes by init over the current
\* managed range with the current minimum block size.
FreshInit == init(NewPMM, g_range_start, g_range_end, g_min_block).p

RECURSIVE list_cyclic(_, _, _)
list_cyclic(p, cur, seen) ==
    IF cur = None THEN FALSE
    ELSE IF cur \in seen THEN TRUE
    ELSE LET nw == read_next_word(p, cur)
         IN  list_cyclic(p, IF nw # 0 THEN nw ELSE None, seen \cup {cur})

\* Some freelist leads back into itself.
Cyclic == \E o \in 0..(PMM_MAX_ORDERS - 1) : list_cyclic(Self, g_free_heads[o], {})

Disjoint(x, y) == Bytes(x[2], S(x[1])) \cap Bytes(y[2], S(y[1])) = {}

\* No two freelist entries overlap and no block is on the freelists twice.
FreeDisjoint ==
    /\ ~Cyclic
    /\ \A x \in FreeBlocks : \A y \in FreeBlocks : x # y => Disjoint(x, y)

\* Every freelist block lies wholly in the managed range.
FreeContained ==
    \A x \in FreeBlocks :
        g_range_start <= x[2] /\ x[2] + S(x[1]) <= g_range_end

\* No mark_free_range call since init has put a free or allocated byte on the
\* freelists.
UsedAsMeant == after_misuse = 0

\* C1 (SpecAF). Conservation: on an initialized allocator driven by alloc and
\* free of live allocations only, the sizes of the freelist blocks plus the
\* sizes of the live allocations add up to limit - base.
C1_Conservation ==
    g_inited => FreeSum + LiveSum = g_range_end - g_range_start

\* C2 (SpecAF). Coalescence completeness: once every allocation has been
\* freed, the freelists hold exactly the blocks they held right after init
\* with the same parameters.
C2_CoalescenceComplete ==
    (g_inited /\ DOMAIN allocated_blocks = {})
        => FreeBlocks = FreeBlocksOf(FreshInit)

\* C3 (SpecAF). Round-trip: free of a live allocation, with a size that rounds
\* to the order it was allocated at, returns OK.
C3_RoundTrip == last.op = "free" => last.status = OK

\* C4 as stated (Spec). Disjointness after every public call, whatever range
\* mark_free_range is given: no two freelist entries overlap and no address is
\* on the freelists twice.
C4_Disjoint == FreeDisjoint

\* C4 as amended (Spec). Disjointness after every public call, as long as
\* every mark_free_range call since init was given a range that held no free
\* and no allocated byte.
C4_DisjointAsMeant == UsedAsMeant => FreeDisjoint

\* A reserved range has been freed again and the freelists hold several blocks.
C4_Witness ==
    /\ UsedAsMeant
    /\ last.op = "mark_free_range" /\ last.status = OK
    /\ Cardinality(FreeBlocks) >= 3
    /\ DOMAIN allocated_blocks # {}

\* C5 (SpecAFR). In traces of init, alloc, free of live allocations and
\* mark_reserved_range, no freelist block overlaps a live allocation.
C5_FreeLiveDisjoint == FreeBytesOf(Self) \cap LiveBytesOf(Self) = {}

\* A reservation has been made around a live allocation, free blocks remain.
C5_Witness ==
    /\ last.op = "mark_reserved_range" /\ last.status = OK
    /\ DOMAIN allocated_blocks # {}
    /\ Cardinality(FreeBlocks) >= 2

\* C6 (SpecAF). No double allocation: the block a successful alloc hands out
\* overlaps no allocation that was live before the call, so simultaneously
\* live allocations are pairwise disjoint.
C6_NoDoubleAlloc ==
    [][(last'.op = "alloc" /\ last'.status = OK) =>
         \A a \in DOMAIN allocated_blocks :
            Bytes(a, allocated_blocks[a])
              \cap Bytes(last'.addr, allocated_blocks'[last'.addr]) = {}]_vars

\* An alloc has succeeded beside two live allocations, after a free.
C6_Witness ==
    /\ last.op = "alloc" /\ last.status = OK
    /\ Cardinality(DOMAIN allocated_blocks) >= 3
    /\ FreeBlocks # {}

\* C7 (SpecD). The address of a successful alloc is a multiple of the minimum
\* block size chosen at init and lies in [base, limit).
C7_AllocAddr ==
    (last.op = "alloc" /\ last.status = OK) =>
        /\ last.addr % g_min_block = 0
        /\ g_range_start <= last.addr
        /\ last.addr < g_range_end

\* An alloc has succeeded with the larger minimum block size, above the base.
C7_Witness ==
    /\ last.op = "alloc" /\ last.status = OK
    /\ g_min_block = 2 * WORD_SIZE
    /\ last.addr > g_range_start

\* C8 as stated (Spec). Containment after every public call, whatever range
\* mark_free_range is given: every block b on F[o] has base <= b and
\* b + S(o) <= limit.
C8_Containment == FreeContained

\* C8 as amended (Spec). Containment after every public call, as long as every
\* mark_free_range call since init was given a range that held no free and no
\* allocated byte.
C8_ContainmentAsMeant == UsedAsMeant => FreeContained

\* A block that ends at the limit is on a freelist after a reserved range was
\* freed again.
C8_Witness ==
    /\ UsedAsMeant
    /\ last.op = "mark_free_range" /\ last.status = OK
    /\ \E x \in FreeBlocks : x[2] + S(x[1]) = g_range_end

\* C9 (SpecAF). Block alignment: every freelist block and every live
\* allocation of order o starts at a multiple of S(o) from the base.
C9_BlockAligned ==
    /\ \A x \in FreeBlocks : (x[2] - g_range_start) % S(x[1]) = 0
    /\ \A a \in DOMAIN allocated_blocks :
          (a - g_range_start) % allocated_blocks[a] = 0

\* C10 (Spec). Alignment: after every public call every freelist block starts
\* at a multiple of the minimum block size.
C10_MinAligned == \A x \in FreeBlocks : x[2] % g_min_block = 0

\* Blocks are free above the base under the larger minimum block size, after a
\* free has put one back.
C10_Witness ==
    /\ last.op = "free" /\ last.status = OK
    /\ g_min_block = 2 * WORD_SIZE
    /\ \E x \in FreeBlocks : x[2] > 0

\* The allocator state the contract speaks of: flag, base, limit, minimum
\* block size, largest order, freelist heads and link words.
AllocatorState ==
    <<g_inited, g_range_start, g_range_end, g_min_block, g_max_order,
      g_order_count, g_free_heads, memory_state>>

MisuseStatus ==
    {ERR_INVALID, ERR_NOT_INIT, ERR_ALREADY_INIT, ERR_NOT_ALIGNED,
     ERR_OUT_OF_RANGE}

\* C11 (SpecM). Misuse has no side effects: a call of init, alloc, free,
\* mark_reserved_range or mark_free_range that returns INVALID, NOT_INIT,
\* ALREADY_INIT, NOT_ALIGNED or OUT_OF_RANGE leaves the allocator state as it
\* was before the call.
C11_MisuseNoSideEffects ==
    [][(/\ last'.op \in {"init", "alloc", "free", "mark_reserved_range",
                          "mark_free_range"}
        /\ last'.status \in MisuseStatus)
          => UNCHANGED AllocatorState]_vars

\* C12 (SpecD). An alloc call that returns OOM leaves every freelist, every
\* link word and the set of live allocations unchanged.
C12_OomNoSideEffects ==
    [][(last'.op = "alloc" /\ last'.status = ERR_OOM)
          => UNCHANGED <<g_free_heads, memory_state, allocated_blocks>>]_vars

\* An alloc has returned OOM while smaller blocks are free and an allocation
\* is live.
C12_Witness ==
    /\ last.op = "alloc" /\ last.status = ERR_OOM
    /\ FreeBlocks # {}
    /\ DOMAIN allocated_blocks # {}

\* The smallest order whose block size is at least n bytes.
OrderFor(n) ==
    CHOOSE o \in 0..(PMM_MAX_ORDERS - 1) :
        /\ g_min_block * (2 ^ o) >= n
        /\ \A k \in 0..(o - 1) : g_min_block * (2 ^ k) < n

\* No block of order o or larger is free.
NoneFreeFrom(o) == \A k \in o..g_max_order : g_free_heads[k] = None

\* C13 (SpecD). On an initialized allocator alloc(n) with n > 0 returns OOM
\* exactly when the order n needs exceeds O_max or every freelist from that
\* order up to O_max is empty, and returns OK otherwise.
C13_OomIff ==
    g_inited =>
        \A n \in SizeSet \ {0} :
            alloc(Self, n).status =
                IF OrderFor(n) > g_max_order \/ NoneFreeFrom(OrderFor(n))
                THEN ERR_OOM ELSE OK

\* alloc has returned OOM with blocks free, all of them too small, after an
\* earlier alloc took a block.
C13_Witness ==
    /\ g_inited
    /\ last.op = "alloc" /\ last.status = ERR_OOM
    /\ DOMAIN allocated_blocks # {}
    /\ FreeBlocks # {}
    /\ \E n \in SizeSet \ {0} :
          OrderFor(n) <= g_max_order /\ NoneFreeFrom(OrderFor(n))

\* The least multiple of b that is at least x, the greatest that is at most x.
UpTo(x, b) == ((x + b - 1) \div b) * b

DownTo(x, b) == x - (x % b)

\* x is positive and has no odd divisor but 1.
IsPowerOfTwo(x) == x >= 1 /\ \A d \in 2..x : x % d = 0 => d % 2 = 0

\* The arguments init rejects on an uninitialized allocator.
InitRejects(start, end, min_block) ==
    \/ end <= start
    \/ min_block = 0
    \/ ~IsPowerOfTwo(min_block)
    \/ min_block < 8
    \/ DownTo(end, min_block) <= UpTo(start, min_block)

\* C14 (SpecD). init returns ALREADY_INIT whenever the allocator is
\* initialized, whatever the arguments; otherwise INVALID if end <= start,
\* min_block is 0, not a power of two or below 8, or the range aligned inward
\* to min_block is empty; otherwise OK, and the allocator is then initialized.
C14_InitStatus ==
    \A s \in StartSet, e \in EndSet, mb \in MinBlockSet :
        LET r == init(Self, s, e, mb)
        IN  /\ r.status = IF g_inited THEN ERR_ALREADY_INIT
                          ELSE IF InitRejects(s, e, mb) THEN ERR_INVALID
                          ELSE OK
            /\ r.status = OK => r.p.g_inited

\* init has rejected a range that is non-empty but holds no aligned block.
C14_Witness ==
    /\ last.op = "init" /\ last.status = ERR_INVALID
    /\ ~g_inited
    /\ g_min_block = 2 * WORD_SIZE

\* C15 (SpecD). After a successful init(start, end, B): base is start rounded
\* up and limit is end rounded down to a multiple of B, O_max is the largest
\* order, at most 31, whose block fits in limit - base, and order_count is
\* O_max + 1.
C15_InitGeometry ==
    \A s \in StartSet, e \in EndSet, mb \in MinBlockSet :
        LET r == init(Self, s, e, mb)
            base == r.p.g_range_start
            limit == r.p.g_range_end
            omax == r.p.g_max_order
        IN  r.status = OK =>
              /\ r.p.g_min_block = mb
              /\ base = UpTo(s, mb) /\ base % mb = 0
              /\ limit = DownTo(e, mb) /\ limit % mb = 0
              /\ omax <= PMM_MAX_ORDERS - 1
              /\ mb * (2 ^ omax) <= limit - base
              /\ omax = PMM_MAX_ORDERS - 1 \/ mb * (2 ^ (omax + 1)) > limit - base
              /\ r.p.g_order_count = omax + 1

\* init has succeeded on a start it had to round up.
C15_Witness ==
    /\ last.op = "init" /\ last.status = OK
    /\ g_min_block = 2 * WORD_SIZE
    /\ g_range_start = 2 * WORD_SIZE

\* C16 (SpecM). On an uninitialized allocator, never initialized or shut down,
\* alloc, free, mark_reserved_range and mark_free_range return NOT_INIT for
\* every argument, also for arguments that would otherwise be INVALID,
\* OUT_OF_RANGE or NOT_ALIGNED.
C16_NotInit ==
    ~g_inited =>
        /\ \A n \in SizeSet : alloc(Self, n).status = ERR_NOT_INIT
        /\ \A a \in AddrSet, n \in SizeSet :
              free(Self, a, n).status = ERR_NOT_INIT
        /\ \A s \in RangeSet, e \in RangeSet :
              /\ mark_reserved_range(Self, s, e).status = ERR_NOT_INIT
              /\ mark_free_range(Self, s, e).status = ERR_NOT_INIT

\* mark_free_range has returned NOT_INIT on an allocator that is not
\* initialized.
C16_Witness ==
    /\ ~g_inited
    /\ last.op = "mark_free_range" /\ last.status = ERR_NOT_INIT

\* C17 (SpecD). Idempotence of shutdown: shutdown on an uninitialized
\* allocator, which the second of two consecutive shutdowns is, changes no
\* state.
C17_ShutdownIdempotent ==
    /\ [][(~g_inited /\ last'.op = "shutdown")
             => UNCHANGED <<AllocatorState, allocated_blocks>>]_vars
    /\ [](shutdown(shutdown(Self)) = shutdown(Self))

\* shutdown has returned on an uninitialized allocator whose fields a failed
\* init had touched, and has left them.
C17_Witness ==
    /\ ~g_inited
    /\ last.op = "shutdown"
    /\ g_min_block = 2 * WORD_SIZE

\* C18 (SpecD). After any call of shutdown has returned, also one that follows
\* failed init calls, the allocator is uninitialized with min_block 4096,
\* base 0, limit 0, O_max 0 and every freelist empty.
C18_ShutdownDefaults ==
    last.op = "shutdown" =>
        /\ ~g_inited
        /\ g_min_block = PMM_MIN_ORDER_PAGE_SIZE
        /\ g_range_start = 0
        /\ g_range_end = 0
        /\ g_max_order = 0
        /\ g_free_heads = NoHeads

\* Two init calls gave the same status, geometry, freelist heads and link
\* words, and with them the same freelist contents.
SameInit(r1, r2) ==
    /\ r1.status = r2.status
    /\ r1.p.g_inited = r2.p.g_inited
    /\ r1.p.g_range_start = r2.p.g_range_start
    /\ r1.p.g_range_end = r2.p.g_range_end
    /\ r1.p.g_min_block = r2.p.g_min_block
    /\ r1.p.g_max_order = r2.p.g_max_order
    /\ r1.p.g_free_heads = r2.p.g_free_heads
    /\ r1.p.memory_state = r2.p.memory_state

\* What init gives on a never-used instance, for each of the offered arguments.
FreshInits ==
    [s \in StartSet, e \in EndSet, mb \in MinBlockSet |-> init(NewPMM, s, e, mb)]

\* C19 (Spec). Re-initialization: after shutdown of an initialized allocator,
\* whatever happened before, init(start, end, B) returns the same status and
\* produces the same base, limit, min_block, O_max, freelist contents and
\* link words as the same call on a never-used instance.
C19_ReInit ==
    [][(g_inited /\ last'.op = "shutdown") =>
          \A s \in StartSet, e \in EndSet, mb \in MinBlockSet :
              SameInit(init(Self', s, e, mb), FreshInits[s, e, mb])]_vars

\* shutdown has torn down an allocator whose freelists a mark_free_range call
\* on a free range had just spoiled.
C19_Witness ==
    /\ last.op = "shutdown"
    /\ ~g_inited
    /\ after_misuse > 0

\* The status the checks of free(addr, n) lead to, OK when all of them pass.
FreeChecks(addr, n) ==
    IF n = 0 THEN ERR_INVALID
    ELSE IF addr < g_range_start \/ addr >= g_range_end THEN ERR_OUT_OF_RANGE
    ELSE IF OrderFor(n) > g_max_order THEN ERR_INVALID
    ELSE IF addr % (g_min_block * (2 ^ OrderFor(n))) # 0 THEN ERR_NOT_ALIGNED
    ELSE OK

\* C20 (SpecM). free(addr, n) on an initialized allocator decides its error in
\* a fixed order: INVALID if n is 0; else OUT_OF_RANGE if addr is outside
\* [base, limit); else INVALID if the order n needs exceeds O_max; else
\* NOT_ALIGNED if addr is not a multiple of that order's block size; and it
\* touches no freelist, link word or allocation unless all four checks pass.
C20_FreeCheckOrder ==
    g_inited =>
        \A a \in AddrSet, n \in SizeSet :
            LET r == free(Self, a, n)
            IN  /\ r.status = FreeChecks(a, n)
                /\ r.status # OK => r.p = Self

\* free has rejected an address inside the range for its alignment.
C20_Witness ==
    /\ g_inited
    /\ last.op = "free" /\ last.status = ERR_NOT_ALIGNED

\* C21 (SpecD). Oversize asymmetry: for a size whose order exceeds O_max,
\* alloc returns OOM while free with an address inside the range returns
\* INVALID; in particular alloc(S(O_max) + 1) returns OOM.
C21_OversizeAsymmetry ==
    g_inited =>
        /\ \A n \in SizeSet \ {0} :
              OrderFor(n) > g_max_order =>
                 /\ alloc(Self, n).status = ERR_OOM
                 /\ \A a \in AddrSet :
                       (g_range_start <= a /\ a < g_range_end)
                          => free(Self, a, n).status = ERR_INVALID
        /\ alloc(Self, S(g_max_order) + 1).status = ERR_OOM

\* alloc has returned OOM although a block of the largest order is free: the
\* size asked for was above it.
C21_Witness ==
    /\ g_inited
    /\ last.op = "alloc" /\ last.status = ERR_OOM
    /\ g_free_heads[g_max_order] # None

\* C22 (SpecD). Size rounding: a successful alloc(n) hands out a block of
\* size B * 2^o for the smallest order o whose block holds n bytes: the bytes
\* that stop being free are exactly the S(o) bytes from the returned address,
\* S(o) >= n, and the next smaller order would not hold n.
C22_SizeRounding ==
    g_inited =>
        \A n \in SizeSet \ {0} :
            LET r == alloc(Self, n)
                size == g_min_block * (2 ^ OrderFor(n))
            IN  r.status = OK =>
                  /\ r.p.allocated_blocks[r.addr] = size
                  /\ FreeBytesOf(Self) \ FreeBytesOf(r.p) = Bytes(r.addr, size)
                  /\ size >= n
                  /\ OrderFor(n) > 0 => size \div 2 < n

\* alloc has handed out a block above the minimum block size.
C22_Witness ==
    /\ g_inited
    /\ last.op = "alloc" /\ last.status = OK
    /\ allocated_blocks[last.addr] >= 2 * g_min_block

\* The smallest order from o up whose freelist is non-empty.
SmallestFreeFrom(o) ==
    CHOOSE k \in o..g_max_order :
        /\ g_free_heads[k] # None
        /\ \A j \in o..(k - 1) : g_free_heads[j] = None

\* C23 (SpecD). Find-and-split selection: a successful alloc of order o takes
\* the head of F[k] for the smallest k >= o whose freelist is non-empty, and
\* returns the start address of that block.
C23_FindAndSplit ==
    g_inited =>
        \A n \in SizeSet \ {0} :
            LET r == alloc(Self, n)
                k == SmallestFreeFrom(OrderFor(n))
            IN  r.status = OK =>
                  /\ r.addr = g_free_heads[k]
                  /\ r.addr = Head(FreeSeq(k))
                  /\ r.addr \notin SeqToSet(get_free_list_state(r.p, k))

\* alloc has returned the lower half of a block it split: the upper half is
\* free at the order handed out.
C23_Witness ==
    /\ g_inited
    /\ last.op = "alloc" /\ last.status = OK
    /\ \E x \in FreeBlocks :
          /\ S(x[1]) = allocated_blocks[last.addr]
          /\ x[2] = last.addr + allocated_blocks[last.addr]

\* C24 (SpecD). Split tie-break: when alloc of order o pops block X from F[k]
\* with k > o, then after the call each F[j] with o <= j < k holds the single
\* block X + S(j), F[k] has lost its former head and nothing else, and every
\* other freelist is as it was.
C24_SplitTieBreak ==
    g_inited =>
        \A n \in SizeSet \ {0} :
            LET r == alloc(Self, n)
                o == OrderFor(n)
                k == SmallestFreeFrom(o)
            IN  (r.status = OK /\ k > o) =>
                  \A j \in 0..(PMM_MAX_ORDERS - 1) :
                      get_free_list_state(r.p, j) =
                          IF o <= j /\ j < k THEN <<r.addr + S(j)>>
                          ELSE IF j = k THEN Tail(FreeSeq(k))
                          ELSE FreeSeq(j)

\* alloc has split a block twice: the upper halves are free at the order
\* handed out and at the order above it.
C24_Witness ==
    /\ g_inited
    /\ last.op = "alloc" /\ last.status = OK
    /\ \E j \in 0..(g_max_order - 2) :
          /\ S(j) = allocated_blocks[last.addr]
          /\ FreeSeq(j) = <<last.addr + S(j)>>
          /\ FreeSeq(j + 1) = <<last.addr + S(j + 1)>>

\* The bytes mark_reserved_range(s, e) reserves: [s, e) clamped to the managed
\* range and widened to multiples of the minimum block size.
ReservedBytes(s, e) ==
    LET s1 == IF s < g_range_start THEN g_range_start ELSE s
        e1 == IF e > g_range_end THEN g_range_end ELSE e
    IN  DownTo(s1, g_min_block)..(UpTo(e1, g_min_block) - 1)

\* C25 (SpecD). After mark_reserved_range(s, e) returns OK no freelist block
\* intersects the clamped, widened range, and an alloc that follows returns no
\* block intersecting it.
C25_ReservedNotFree ==
    g_inited =>
        \A s \in RangeSet, e \in RangeSet :
            LET r == mark_reserved_range(Self, s, e)
            IN  r.status = OK =>
                  /\ FreeBytesOf(r.p) \cap ReservedBytes(s, e) = {}
                  /\ \A n \in SizeSet :
                        LET a == alloc(r.p, n)
                        IN  a.status = OK =>
                              Bytes(a.addr, a.p.allocated_blocks[a.addr])
                                 \cap ReservedBytes(s, e) = {}

\* A reservation has succeeded and left bytes of the managed range that are
\* neither free nor allocated, beside blocks that are still free.
C25_Witness ==
    /\ g_inited
    /\ last.op = "mark_reserved_range" /\ last.status = OK
    /\ FreeBlocks # {}
    /\ \E x \in g_range_start..(g_range_end - 1) : x \notin UsedBytes

\* No two blocks of the freelist snapshot of `p` share a byte.
DisjointIn(p) ==
    \A x \in FreeBlocksOf(p) : \A y \in FreeBlocksOf(p) :
        x # y => Bytes(x[2], order_to_size(p, x[1]))
                    \cap Bytes(y[2], order_to_size(p, y[1])) = {}

\* C26 (SpecD). mark_reserved_range(s, e) changes the free status only of
\* bytes inside the clamped, widened range: every byte outside it that a
\* freelist block covered before the call is covered by exactly one freelist
\* block after it, and no byte that was not free becomes free.
C26_ReserveFrame ==
    g_inited =>
        \A s \in RangeSet, e \in RangeSet :
            LET r == mark_reserved_range(Self, s, e)
            IN  (r.status = OK /\ ~r.hung) =>
                  /\ FreeBytesOf(Self) \ ReservedBytes(s, e) \subseteq FreeBytesOf(r.p)
                  /\ FreeBytesOf(r.p) \subseteq FreeBytesOf(Self)
                  /\ DisjointIn(r.p)

RECURSIVE SumSizes(_, _)
SumSizes(p, blocks) ==
    IF blocks = {} THEN 0
    ELSE LET x == CHOOSE y \in blocks : TRUE
         IN  order_to_size(p, x[1]) + SumSizes(p, blocks \ {x})

\* Sum of the sizes of the blocks the freelist snapshot of `p` shows.
FreeSumOf(p) == SumSizes(p, FreeBlocksOf(p))

\* C27 (SpecD). Reserve/free round-trip: on a freshly initialized allocator,
\* for any B-aligned s < e inside [base, limit), mark_reserved_range(s, e)
\* followed by mark_free_range(s, e) both return OK and the sizes of the
\* freelist blocks again add up to limit - base.
C27_ReserveFreeRoundTrip ==
    (last.op = "init" /\ last.status = OK) =>
        \A s \in RangeSet, e \in RangeSet :
            (/\ s % g_min_block = 0 /\ e % g_min_block = 0
             /\ g_range_start <= s /\ s < e /\ e <= g_range_end) =>
                LET r1 == mark_reserved_range(Self, s, e)
                    r2 == mark_free_range(r1.p, s, e)
                IN  /\ r1.status = OK
                    /\ r2.status = OK
                    /\ FreeSumOf(r2.p) = g_range_end - g_range_start

\* [s, e) clamped to the managed range is empty.
ClampedEmpty(s, e) ==
    (IF s < g_range_start THEN g_range_start ELSE s)
        >= (IF e > g_range_end THEN g_range_end ELSE e)

\* [s, e) clamped to the managed range holds no whole aligned block.
ClampedNoBlock(s, e) ==
    UpTo(IF s < g_range_start THEN g_range_start ELSE s, g_min_block)
        >= DownTo(IF e > g_range_end THEN g_range_end ELSE e, g_min_block)

\* C28 (SpecD). On an initialized allocator mark_reserved_range(s, e) and
\* mark_free_range(s, e) return INVALID when e <= s or [s, e) does not meet
\* [base, limit); mark_free_range also returns INVALID when the clamped range
\* holds no whole B-aligned block; in every other case each returns OK.
C28_RangeStatus ==
    g_inited =>
        \A s \in RangeSet, e \in RangeSet :
            /\ mark_reserved_range(Self, s, e).status =
                  IF e <= s \/ ClampedEmpty(s, e) THEN ERR_INVALID ELSE OK
            /\ mark_free_range(Self, s, e).status =
                  IF e <= s \/ ClampedEmpty(s, e) \/ ClampedNoBlock(s, e)
                  THEN ERR_INVALID ELSE OK

\* mark_free_range has rejected a range on an initialized allocator whose
\* minimum block is larger than the step of the offered ranges.
C28_Witness ==
    /\ g_inited
    /\ last.op = "mark_free_range" /\ last.status = ERR_INVALID
    /\ g_min_block = 2 * WORD_SIZE

\* The bytes mark_free_range(s, e) is to put on the freelists: [s, e) clamped
\* to the managed range and narrowed to multiples of the minimum block size.
FreedBytes(s, e) ==
    UpTo(IF s < g_range_start THEN g_range_start ELSE s, g_min_block)
      ..(DownTo(IF e > g_range_end THEN g_range_end ELSE e, g_min_block) - 1)

\* C29 (SpecD). mark_free_range(s, e) returning OK, on a range that holds no
\* free and no allocated byte, only adds blocks: the blocks it adds cover
\* exactly the clamped, narrowed range and no byte outside [s, e), and every
\* block that was on a freelist before the call is on the same freelist after
\* it.
C29_MarkFreeOnlyAdds ==
    g_inited =>
        \A s \in RangeSet, e \in RangeSet :
            LET r == mark_free_range(Self, s, e)
                added == FreeBlocksOf(r.p) \ FreeBlocks
            IN  (r.status = OK /\ Disciplined(s, e, UsedBytes)) =>
                  /\ FreeBlocks \subseteq FreeBlocksOf(r.p)
                  /\ UNION {Bytes(x[2], S(x[1])) : x \in added}
                        \subseteq FreedBytes(s, e)
                  /\ FreedBytes(s, e) \subseteq FreeBytesOf(r.p)

\* C30 (SpecD). mark_reserved_range never fails mid-operation: once its
\* argument checks have passed (initialized, e > s, non-empty after clamping)
\* it returns OK, and every mark_free_range call it makes for the part of an
\* overlapping block outside the range returns OK.
C30_ReserveTotal ==
    g_inited =>
        \A s \in RangeSet, e \in RangeSet :
            LET r == mark_reserved_range(Self, s, e)
            IN  (e > s /\ ~ClampedEmpty(s, e)) =>
                  /\ r.status = OK
                  /\ r.inner_ok

\* A reservation has cut a block of the initial partition and put its ends
\* back: nothing is allocated, some bytes are reserved, several blocks free.
C30_Witness ==
    /\ g_inited
    /\ last.op = "mark_reserved_range" /\ last.status = OK
    /\ DOMAIN allocated_blocks = {}
    /\ Cardinality(FreeBlocks) >= 2
    /\ FreeSum < g_range_end - g_range_start

\* Every loop of the public operations has ended: the walks of free and
\* mark_reserved_range in the call that led here did, and the walks of the
\* freelist snapshot and of the validator over the current freelists do.
Terminates == ~hung /\ ~Cyclic

\* C31 as stated (Spec). Termination: in every state reached by public
\* operations with free applied only to live allocations, whatever range
\* mark_free_range is given, every public operation terminates and every
\* freelist is acyclic.
C31_Termination == Terminates

\* C31 as amended (Spec). Termination, as long as every mark_free_range call
\* since init was given a range that held no free and no allocated byte.
C31_TerminationAsMeant == UsedAsMeant => Terminates

\* A free of a live allocation has walked a freelist for the buddy and the
\* snapshot then walks a freelist of several blocks.
C31_Witness ==
    /\ UsedAsMeant
    /\ last.op = "free" /\ last.status = OK
    /\ \E o \in 0..g_max_order : Len(FreeSeq(o)) >= 2

\* The calls a client that holds the live allocation `a` can make before it
\* frees `a`, each with the allocator it leaves.
CallsWhileLive(a) ==
    {alloc(Self, n).p : n \in SizeSet}
    \cup UNION {{free(Self, b, n).p : n \in LiveSizes(b)} :
                   b \in DOMAIN allocated_blocks \ {a}}
    \cup {mark_reserved_range(Self, s, e).p : s \in RangeSet, e \in RangeSet}
    \cup {init(Self, s, e, mb).p :
            s \in StartSet, e \in EndSet, mb \in MinBlockSet}

\* C32 (SpecAFR). Ownership: while a block is a live allocation its address
\* is on no freelist, and no call made before the block is freed (alloc, free
\* of another live allocation, mark_reserved_range, init) writes a link word
\* at an address inside the block.
C32_Ownership ==
    g_inited =>
        \A a \in DOMAIN allocated_blocks :
            /\ \A x \in FreeBlocks : x[2] # a
            /\ \A q \in CallsWhileLive(a) :
                   q.written \cap Bytes(a, allocated_blocks[a]) = {}

\* A block has been freed, with link words written, while another allocation
\* stayed live next to free blocks.
C32_Witness ==
    /\ g_inited
    /\ last.op = "free" /\ last.status = OK
    /\ DOMAIN allocated_blocks # {}
    /\ FreeBlocks # {}

\* C33 (SpecAF). Alloc/free inverse: an alloc(n) that returns (OK, a),
\* followed at once by free(a, n), leaves every freelist with exactly the
\* blocks, in the order, it had before the alloc.
C33_AllocFreeInverse ==
    g_inited =>
        \A n \in SizeSet :
            LET r == alloc(Self, n)
                f == free(r.p, r.addr, n)
            IN  r.status = OK =>
                  /\ f.status = OK
                  /\ \A o \in 0..(PMM_MAX_ORDERS - 1) :
                         get_free_list_state(f.p, o) = FreeSeq(o)

\* C34 (SpecAF). On a freshly initialized allocator alloc(S(O_max)) returns
\* OK, and free of the block it returns, with the same size, returns OK.
C34_MaxOrderAlloc ==
    (last.op = "init" /\ last.status = OK) =>
        LET r == alloc(Self, S(g_max_order))
        IN  /\ r.status = OK
            /\ free(r.p, r.addr, S(g_max_order)).status = OK

\* C35 (SpecAF). Fragmentation recovery: once every live allocation has been
\* freed, an alloc of any size that succeeds on the freshly initialized
\* allocator succeeds.
C35_FragmentationRecovery ==
    (g_inited /\ DOMAIN allocated_blocks = {}) =>
        \A n \in SizeSet :
            alloc(FreshInit, n).status = OK => alloc(Self, n).status = OK

\* The value read_next_word, pop_head, remove_specific and the freelist
\* snapshot take for the end of a list.
EndOfList == 0

\* C36 (SpecAF). Freelist integrity: the end-of-list marker is the address of
\* no block on a freelist, and a block pushed onto F[o] leaves every block
\* that was on F[o] reachable from its head, behind the new block.
C36_SentinelDistinct ==
    g_inited =>
        /\ \A x \in FreeBlocks : x[2] # EndOfList
        /\ \A o \in 0..g_max_order :
               \A b \in RangeSet \ SeqToSet(FreeSeq(o)) :
                   get_free_list_state(push_head(Self, o, b), o)
                       = <<b>> \o FreeSeq(o)

\* The pairs <<order, block>> partition_range_into_blocks(lo, hi) pushes:
\* what the freelists show when it starts from empty freelists.
PartitionBlocks(lo, hi) ==
    FreeBlocksOf(partition_range_into_blocks(
        [Self EXCEPT !.g_free_heads = NoHeads, !.memory_state = EmptyDict],
        lo, hi))

\* The ranges partition is specified for: lo < hi inside the managed range,
\* both multiples of the minimum block size.
PartitionRanges ==
    {r \in RangeSet \X RangeSet :
        /\ g_range_start <= r[1] /\ r[1] < r[2] /\ r[2] <= g_range_end
        /\ r[1] % g_min_block = 0 /\ r[2] % g_min_block = 0}

\* C37 (SpecD). partition(lo, hi), for lo < hi inside the managed range and
\* multiples of the minimum block size, pushes blocks that tile [lo, hi)
\* exactly: pairwise disjoint, with union [lo, hi), each of the largest order
\* o <= O_max with S(o) <= hi - cur and cur mod S(o) = 0 at its start cur.
C37_PartitionTiles ==
    g_inited =>
        \A r \in PartitionRanges :
            LET blocks == PartitionBlocks(r[1], r[2])
            IN  /\ \A x \in blocks : \A y \in blocks : x # y => Disjoint(x, y)
                /\ UNION {Bytes(x[2], S(x[1])) : x \in blocks}
                       = r[1]..(r[2] - 1)
                /\ \A x \in blocks :
                       /\ x[1] <= g_max_order
                       /\ S(x[1]) <= r[2] - x[2]
                       /\ x[2] % S(x[1]) = 0
                       /\ \A o \in (x[1] + 1)..g_max_order :
                              ~(S(o) <= r[2] - x[2] /\ x[2] % S(o) = 0)

\* mark_free_range has partitioned a range, and some range of the allocator
\* is partitioned into blocks of different orders.
C37_Witness ==
    /\ g_inited
    /\ last.op = "mark_free_range" /\ last.status = OK
    /\ \E r \in PartitionRanges :
           \E x \in PartitionBlocks(r[1], r[2]) :
               \E y \in PartitionBlocks(r[1], r[2]) : x[1] # y[1]

\* The least number of blocks in a tiling of [lo, hi) by blocks of size S(o),
\* o <= O_max, each at a multiple of its own size: the first block of a tiling
\* starts at lo, and the rest tile what follows it.
RECURSIVE MinTiles(_, _)
MinTiles(lo, hi) ==
    IF lo >= hi THEN 0
    ELSE LET firsts == {o \in 0..g_max_order :
                           S(o) <= hi - lo /\ lo % S(o) = 0}
             counts == {1 + MinTiles(lo + S(o), hi) : o \in firsts}
         IN  CHOOSE c \in counts : \A d \in counts : c <= d

\* C38 (SpecD). partition(lo, hi) pushes the least number of blocks any tiling
\* of [lo, hi) by blocks of size S(o), o <= O_max, each starting at a multiple
\* of its own size, has.
C38_PartitionMinimal ==
    g_inited =>
        \A r \in PartitionRanges :
            Cardinality(PartitionBlocks(r[1], r[2])) = MinTiles(r[1], r[2])

\* init has partitioned the managed range, and some range has a tiling with
\* more blocks than the least number.
C38_Witness ==
    /\ g_inited
    /\ last.op = "init" /\ last.status = OK
    /\ \E r \in PartitionRanges :
           /\ MinTiles(r[1], r[2]) >= 2
           /\ MinTiles(r[1], r[2]) < (r[2] - r[1]) \div g_min_block

\* C39 (SpecAF). Maximal coalescing: after every call there is no order
\* o < O_max with two blocks x and y on F[o] such that y is buddy(x, o) and
\* the block the two would merge into lies inside the managed range.
C39_MaximalCoalescing ==
    g_inited =>
        \A o \in 0..(g_max_order - 1) :
            \A x \in SeqToSet(FreeSeq(o)) : \A y \in SeqToSet(FreeSeq(o)) :
                LET merged == IF x < y THEN x ELSE y
                IN  ~ /\ y = buddy_of(Self, x, o)
                      /\ g_range_start <= merged
                      /\ merged + S(o + 1) <= g_range_end

\* C40 (SpecM). free's argument checks are enough for containment: for any
\* address and size, when free(addr, n) returns OK the block it inserts, of the
\* order o inferred from n, ends inside the managed range:
\* addr + S(o) <= limit.
C40_FreeContained ==
    g_inited =>
        \A a \in AddrSet, n \in SizeSet :
            free(Self, a, n).status = OK => a + S(OrderFor(n)) <= g_range_end

====
